---- MODULE Spec2Model ----
(***************************************************************************)
(* Model of the SoundCloud re-listen generator: the two scripts            *)
(*   src/frontend/scripts/generate_relisten.py  (JSON-file target)         *)
(*   src/generate_relisten.py                   (HTML-embed target)        *)
(* One run is get_access_token, the resolve request, the track-listing     *)
(* request followed by the filter, format_track_data and the write of the  *)
(* output file.  Text is a sequence of one-character strings so that       *)
(* slicing, str.replace and html.escape are computed, not assumed.         *)
(***************************************************************************)
EXTENDS Integers, Sequences, FiniteSets, TLC

VARIABLES
    variant,        \* "json": frontend/scripts script, "html": root script
    pc,             \* position of the run
    requests,       \* HTTP requests issued so far, in order
    responses,      \* the answers to them, in order
    account,        \* the account the track listing is addressed by
    access_token,   \* value returned by get_access_token
    raw,            \* response.json() of the track listing
    tracks,         \* list returned by fetch_soundcloud_tracks
    formatted,      \* list returned by format_track_data
    error,          \* the exception that ended the run, if any
    stdout,         \* diagnostics printed on the failure and fallback branches
    output          \* the output file

vars == <<variant, pc, requests, responses, access_token, account, raw, tracks, formatted, error, stdout, output>>

----------------------------------------------------------------------------
(* Python values.  An optional dict entry is absent, None or a value.      *)

Absent == [k |-> "absent", s |-> <<>>]
None == [k |-> "null", s |-> <<>>]
Str(s) == [k |-> "str", s |-> s]

AbsentInt == [k |-> "absent", n |-> 0]
NoneInt == [k |-> "null", n |-> 0]
Int_(n) == [k |-> "int", n |-> n]

AbsentBool == [k |-> "absent", b |-> FALSE]
NoneBool == [k |-> "null", b |-> FALSE]
Bool(b) == [k |-> "bool", b |-> b]

\* dict.get(key, default): the default only replaces a missing key.
Get(v, default) == IF v.k = "absent" THEN default ELSE v

\* Truth value of an optional text / flag, as `if x` and `x or y` test it.
Truthy(v) == v.k = "str" /\ v.s # <<>>
TruthyBool(v) == v.k = "bool" /\ v.b

Min(a, b) == IF a < b THEN a ELSE b

----------------------------------------------------------------------------
(* Text operations.                                                        *)

\* Concatenation of the pieces f[lo], ..., f[hi], halving the range.
RECURSIVE Cat(_, _, _)
Cat(f, lo, hi) ==
    IF lo > hi THEN <<>>
    ELSE IF lo = hi THEN f[lo]
    ELSE LET mid == (lo + hi) \div 2 IN Cat(f, lo, mid) \o Cat(f, mid + 1, hi)

\* Positions at which old occurs in s.
Occurrences(s, old) == {i \in 1..(Len(s) - Len(old) + 1) : SubSeq(s, i, i + Len(old) - 1) = old}

\* Least occurrence at or after position q; Len(s) + 1 when there is none.
FirstFrom(occ, q, end) ==
    IF q \in occ THEN q
    ELSE LET later == {j \in occ : j > q}
         IN  IF later = {} THEN end
             ELSE CHOOSE j \in later : \A k \in later : j <= k

\* Closure of the set r under the jump function j (r, j[r], j[j[r]], ...),
\* doubling the jump at each round.
RECURSIVE Orbit(_, _)
Orbit(r, j) ==
    LET r2 == r \cup {j[p] : p \in r}
    IN  IF r2 = r THEN r ELSE Orbit(r2, [p \in DOMAIN j |-> j[j[p]]])

\* str.replace(old, new) for a non-empty old: the scan takes the leftmost
\* occurrence, resumes right after it, and so replaces the occurrences that do
\* not overlap an earlier replaced one.
str_replace(s, old, new) ==
    LET n == Len(s)
        m == Len(old)
        occ == Occurrences(s, old)
        jump == [p \in 1..(n + 1) |-> IF p > n THEN n + 1 ELSE FirstFrom(occ, p + m, n + 1)]
        taken == Orbit({FirstFrom(occ, 1, n + 1)}, jump) \ {n + 1}
        piece == [i \in 1..n |->
                    IF i \in taken THEN new
                    ELSE IF \E t \in taken : t < i /\ i < t + m THEN <<>>
                    ELSE <<s[i]>>]
    IN  IF occ = {} THEN s ELSE Cat(piece, 1, n)

\* html.escape(s, quote=True): & first, then < > " '
html_escape(s) ==
    LET a == str_replace(s, <<"&">>, <<"&", "a", "m", "p", ";">>)
        b == str_replace(a, <<"<">>, <<"&", "l", "t", ";">>)
        c == str_replace(b, <<">">>, <<"&", "g", "t", ";">>)
        d == str_replace(c, <<"\"">>, <<"&", "q", "u", "o", "t", ";">>)
    IN  str_replace(d, <<"'">>, <<"&", "#", "x", "2", "7", ";">>)

\* s[:n]
Slice(s, n) == SubSeq(s, 1, Min(Len(s), n))

\* c * n
Rep(c, n) == [i \in 1..n |-> c]

----------------------------------------------------------------------------
(* Literals of the two scripts.                                            *)

HTTP_OK == 200
DescLimit == 200
DebugSlice == 10

Ellipsis == <<".", ".", ".">>
Hash == <<"#">>
JsonPlaceholder == <<"/", "m", "o", "a", "f", "u", "n", "k", ".", "p", "n", "g">>
HtmlPlaceholder == <<".", "/", "m", "o", "a", "f", "u", "n", "k", ".", "p", "n", "g">>
LargeJpg == <<"-", "l", "a", "r", "g", "e", ".", "j", "p", "g">>
CropJpg == <<"-", "c", "r", "o", "p", ".", "j", "p", "g">>
T300Jpg == <<"-", "t", "3", "0", "0", "x", "3", "0", "0", ".", "j", "p", "g">>
T500Jpg == <<"-", "t", "5", "0", "0", "x", "5", "0", "0", ".", "j", "p", "g">>
Public == <<"p", "u", "b", "l", "i", "c">>

----------------------------------------------------------------------------
(* format_track_data                                                       *)

RequiredFields == <<"id", "title", "created_at", "duration", "permalink_url">>

\* Mutant: only the -large.jpg suffix is rewritten.
upgrade_artwork_large_only(u) == str_replace(u, LargeJpg, T500Jpg)

\* The three chained str.replace calls on the artwork URL.
upgrade_artwork(u) ==
    LET a == str_replace(u, LargeJpg, T500Jpg)
        b == str_replace(a, CropJpg, T500Jpg)
    IN  str_replace(b, T300Jpg, T500Jpg)

\* artwork_url as computed before the record is built
artwork_of(track, placeholder) ==
    LET artwork_url == Get(track.artwork_url, Str(placeholder))
    IN  IF Truthy(artwork_url) /\ artwork_url # Str(placeholder)
        THEN Str(upgrade_artwork(artwork_url.s))
        ELSE artwork_url

\* Mutant: the `or placeholder` is dropped.
artwork_or_nothing(artwork_url, placeholder) == artwork_url

\* `artwork_url or placeholder`
artwork_or(artwork_url, placeholder) ==
    IF Truthy(artwork_url) THEN artwork_url ELSE Str(placeholder)

\* track.get('stream_url', '#')
stream_of(track) == Get(track.stream_url, Str(Hash))

\* Mutant: the description is not cut.
description_of_uncut(track) ==
    LET d == Get(track.description, Str(<<>>))
    IN  IF Truthy(d) THEN d.s \o Ellipsis ELSE <<>>

\* Mutant: the ellipsis is appended only to a description that was cut.
description_of_cut_only(track) ==
    LET d == Get(track.description, Str(<<>>))
    IN  IF Truthy(d) /\ Len(d.s) > DescLimit THEN Slice(d.s, DescLimit) \o Ellipsis
        ELSE IF Truthy(d) THEN d.s ELSE <<>>

\* (d[:200] + '...') if d else ''   with d = track.get('description', '')
description_of(track) ==
    LET d == Get(track.description, Str(<<>>))
    IN  IF Truthy(d) THEN Slice(d.s, DescLimit) \o Ellipsis ELSE <<>>

\* One iteration of the loop, JSON-file target.
format_track_json(track) ==
    [id            |-> track.id,
     title         |-> track.title,
     artwork_url   |-> artwork_or(artwork_of(track, JsonPlaceholder), JsonPlaceholder),
     created_at    |-> track.created_at,
     duration      |-> track.duration,
     permalink_url |-> track.permalink_url,
     stream_url    |-> stream_of(track),
     description   |-> Str(description_of(track))]

\* Mutant: the HTML-embed target leaves the title as it is.
format_track_html_unescaped_title(track) ==
    [format_track_json(track) EXCEPT
        !.artwork_url = artwork_or(artwork_of(track, HtmlPlaceholder), HtmlPlaceholder),
        !.description = Str(html_escape(description_of(track)))]

\* One iteration of the loop, HTML-embed target.
format_track_html(track) ==
    [id            |-> track.id,
     title         |-> Str(html_escape(track.title.s)),
     artwork_url   |-> artwork_or(artwork_of(track, HtmlPlaceholder), HtmlPlaceholder),
     created_at    |-> track.created_at,
     duration      |-> track.duration,
     permalink_url |-> track.permalink_url,
     stream_url    |-> stream_of(track),
     description   |-> Str(html_escape(description_of(track)))]

\* track[key] raises KeyError for a missing key: the first one, in the order
\* the dict literal reads them.
MissingKeys(track) == {i \in 1..Len(RequiredFields) : track[RequiredFields[i]].k = "absent"}
FirstMissing(track) ==
    RequiredFields[CHOOSE i \in MissingKeys(track) : \A j \in MissingKeys(track) : i <= j]

\* Index of the first track of the list that raises, 0 if none does.
FirstBad(ts) ==
    IF \E i \in 1..Len(ts) : MissingKeys(ts[i]) # {}
    THEN CHOOSE i \in 1..Len(ts) :
            /\ MissingKeys(ts[i]) # {}
            /\ \A j \in 1..(i - 1) : MissingKeys(ts[j]) = {}
    ELSE 0

\* Mutant: the records come out in the reverse order of the tracks.
format_track_data_reversed(ts, v) ==
    [i \in 1..Len(ts) |-> IF v = "json" THEN format_track_json(ts[Len(ts) + 1 - i])
                                         ELSE format_track_html(ts[Len(ts) + 1 - i])]

format_track_data(ts, v) ==
    [i \in 1..Len(ts) |-> IF v = "json" THEN format_track_json(ts[i])
                                         ELSE format_track_html(ts[i])]

----------------------------------------------------------------------------
(* The filter at the end of fetch_soundcloud_tracks.                       *)

\* [track for track in tracks if track.get('streamable', False)]
streamable_of(ts) == SelectSeq(ts, LAMBDA t : TruthyBool(Get(t.streamable, Bool(FALSE))))

\* [track for track in tracks if track.get('sharing') == 'public']
public_of(ts) == SelectSeq(ts, LAMBDA t : Get(t.sharing, None) = Str(Public))

\* Mutant: the public tier is tried before the streamable tier.
filter_tracks_public_first(ts) ==
    LET public_tracks == public_of(ts)
        second == IF public_tracks = <<>> THEN streamable_of(ts) ELSE public_tracks
    IN  IF second = <<>> THEN Slice(ts, DebugSlice) ELSE second

\* Mutant: the debug fallback returns the whole listing.
filter_tracks_unsliced(ts) ==
    LET streamable_tracks == streamable_of(ts)
        second == IF streamable_tracks = <<>> THEN public_of(ts) ELSE streamable_tracks
    IN  IF second = <<>> THEN ts ELSE second

filter_tracks(ts) ==
    LET streamable_tracks == streamable_of(ts)
        second == IF streamable_tracks = <<>> THEN public_of(ts) ELSE streamable_tracks
    IN  IF second = <<>> THEN Slice(ts, DebugSlice) ELSE second

----------------------------------------------------------------------------
(* Bounds of the explored inputs.                                          *)

MaxShort == 3       \* lists up to this length take every combination of kinds
MaxTracks == 12     \* longest track listing
MaxFrags == 2       \* artwork URLs are built from up to this many fragments
MaxTail == 2        \* characters following the first run of a description
MaxRun == 2         \* longest track listing of the runs explored end to end

----------------------------------------------------------------------------
(* Raw tracks the track listing may return.                                *)

Private == <<"p", "r", "i", "v", "a", "t", "e">>

BaseTrack(i) ==
    [id            |-> Int_(i),
     title         |-> Str(<<"T">>),
     artwork_url   |-> Str(<<"a">> \o LargeJpg),
     created_at    |-> Str(<<"2", "0", "2", "5">>),
     duration      |-> Int_(i * 1000),
     permalink_url |-> Str(<<"u">>),
     stream_url    |-> Str(<<"s">>),
     description   |-> Str(<<"d">>),
     streamable    |-> Bool(TRUE),
     sharing       |-> Str(Public)]

Kind(st, sh) == [streamable |-> st, sharing |-> sh]
OfKind(i, kd) == [BaseTrack(i) EXCEPT !.streamable = kd.streamable, !.sharing = kd.sharing]

PlainKind == Kind(Bool(FALSE), Str(Private))
CoreKinds == {Kind(Bool(b), Str(sh)) : b \in BOOLEAN, sh \in {Public, Private}}
OddKinds == {Kind(st, sh) : st \in {AbsentBool, NoneBool}, sh \in {Absent, None, Str(Public)}}

KindLists ==
    UNION {[1..n -> CoreKinds] : n \in 0..MaxShort}
    \cup {[i \in 1..n |-> kd] : n \in 1..MaxTracks, kd \in CoreKinds \cup OddKinds}
    \cup {[i \in 1..n |-> IF i = p THEN kd ELSE PlainKind] :
            n \in 1..MaxTracks, p \in 1..MaxTracks,
            kd \in {Kind(Bool(TRUE), Str(Private)), Kind(Bool(FALSE), Str(Public)),
                    Kind(AbsentBool, Str(Public)), Kind(NoneBool, Absent)}}

FilterLists == {[i \in 1..Len(ks) |-> OfKind(i, ks[i])] : ks \in KindLists}

Frags == {<<"a">>, LargeJpg, CropJpg, T300Jpg, T500Jpg,
          <<"-", "l", "a", "r", "g", "e">>, <<".", "j", "p", "g">>,
          JsonPlaceholder, HtmlPlaceholder}

RECURSIVE UrlsOf(_)
UrlsOf(n) == IF n <= 1 THEN Frags ELSE {a \o b : a \in UrlsOf(n - 1), b \in Frags}
Urls == UNION {UrlsOf(n) : n \in 1..MaxFrags}

ArtworkVals == {Absent, None, Str(<<>>)} \cup {Str(u) : u \in Urls}
StreamVals == {Absent, None, Str(<<>>), Str(<<"s">>)}
TitleVals == {Str(<<>>), Str(<<"T">>), Str(<<"a", "&", "b">>), Str(<<"<", "i", ">">>),
              Str(<<"\"", "'">>)}

DescChars == {"A", "&", "'"}
DescTexts == {Rep(c1, n1) \o Rep(c2, n2) :
                c1 \in DescChars, c2 \in DescChars,
                n1 \in {0, 1, DescLimit - 1, DescLimit}, n2 \in 0..MaxTail}
DescVals == {Absent, None} \cup {Str(d) : d \in DescTexts}

FormatTracks ==
    {[BaseTrack(1) EXCEPT !.artwork_url = a] : a \in ArtworkVals}
    \cup {[BaseTrack(1) EXCEPT !.stream_url = x] : x \in StreamVals}
    \cup {[BaseTrack(1) EXCEPT !.title = x] : x \in TitleVals}
    \cup {[BaseTrack(1) EXCEPT !.description = d] : d \in DescVals}
    \cup {[BaseTrack(1) EXCEPT !.artwork_url = a, !.stream_url = x, !.description = d] :
            a \in {Absent, None}, x \in {Absent, None}, d \in {Absent, None, Str(<<>>)}}
    \cup {[BaseTrack(1) EXCEPT !.title = x, !.artwork_url = a, !.description = d] :
            x \in {Str(<<"T">>), Str(<<"a", "&", "b">>), Str(<<"\"", "'">>)},
            a \in {None, Str(<<"a">> \o CropJpg), Str(JsonPlaceholder)},
            d \in {Absent, Str(<<"d">>), Str(<<"<", "&", ">">>)}}

\* Track p of n lacks one of the required keys.
WithoutKey(t, key) ==
    IF key \in {"id", "duration"} THEN [t EXCEPT ![key] = AbsentInt]
                                  ELSE [t EXCEPT ![key] = Absent]
MissingLists ==
    {[i \in 1..n |-> IF i = p THEN WithoutKey(BaseTrack(i), RequiredFields[f]) ELSE BaseTrack(i)] :
        n \in 1..MaxShort, p \in 1..MaxShort, f \in 1..Len(RequiredFields)}

FormatLists == {<<>>} \cup {<<t>> : t \in FormatTracks} \cup MissingLists

\* Listings explored by the whole run: every combination of kinds up to
\* MaxRun tracks, and listings with one track lacking a required key.
RunLists ==
    {[i \in 1..Len(ks) |-> OfKind(i, ks[i])] : ks \in UNION {[1..n -> CoreKinds] : n \in 0..MaxRun}}
    \cup {<<WithoutKey(BaseTrack(1), RequiredFields[f])>> : f \in 1..Len(RequiredFields)}
    \cup MissingLists

----------------------------------------------------------------------------
(* HTTP: what the three endpoints may answer.                              *)

\* A response: its status, its body as text and as response.json() reads it.
Response(code, text, json) == [status_code |-> code, text |-> text, json |-> json]

\* Answers with a status other than 200, with their bodies.
ErrorResponses ==
    {Response(401, "unauthorized", None), Response(404, "not found", None), Response(503, "", None)}

\* The access_token entry of a 200 token body.
TokenVals == {Absent, None, Str(<<>>), Str(<<"t", "k">>)}

\* The id entry of a 200 resolve body.
UserIds == {AbsentInt, Int_(7)}

NoAccount == [by |-> "none", id |-> AbsentInt]
ByUsername == [by |-> "username", id |-> AbsentInt]
ByUserId(id) == [by |-> "user_id", id |-> id]

Request(endpoint, auth, token, acct) ==
    [endpoint |-> endpoint, auth |-> auth, token |-> token, account |-> acct]

\* Authorization header when a token is held, client_id query parameter otherwise.
AuthOf(token) == IF Truthy(token) THEN "oauth_header" ELSE "client_id_param"
TokenOf(token) == IF Truthy(token) THEN token ELSE None

NoError == [type |-> "none", args |-> <<>>]
Exception(args) == [type |-> "Exception", args |-> args]
KeyError(key) == [type |-> "KeyError", args |-> <<key>>]

NoFile == [exists |-> FALSE, dir |-> FALSE, kind |-> "none", records |-> <<>>]
EmptyDir == [exists |-> FALSE, dir |-> TRUE, kind |-> "none", records |-> <<>>]
StaleFile == [exists |-> TRUE, dir |-> TRUE, kind |-> "stale", records |-> <<>>]

----------------------------------------------------------------------------
(* The run.                                                                *)

Init ==
    /\ variant \in {"json", "html"}
    /\ pc = "start"
    /\ requests = <<>>
    /\ responses = <<>>
    /\ access_token = Absent
    /\ account = NoAccount
    /\ raw = <<>>
    /\ tracks = <<>>
    /\ formatted = <<>>
    /\ error = NoError
    /\ stdout = <<>>
    /\ output \in (IF variant = "json" THEN {NoFile, StaleFile} ELSE {EmptyDir, StaleFile})

\* get_access_token: POST to the token endpoint, answered with status 200.
get_access_token_ok(tok) ==
    /\ pc = "start"
    /\ requests' = Append(requests, Request("token", "basic", None, NoAccount))
    /\ responses' = Append(responses, Response(HTTP_OK, "token body", [access_token |-> tok]))
    /\ access_token' = Get(tok, None)
    /\ pc' = "resolve"
    /\ UNCHANGED <<variant, account, raw, tracks, formatted, error, stdout, output>>

\* Mutant: the failure is printed but not raised, the run goes on without a token.
get_access_token_fail_unraised(resp) ==
    /\ pc = "start"
    /\ resp.status_code # HTTP_OK
    /\ requests' = Append(requests, Request("token", "basic", None, NoAccount))
    /\ responses' = Append(responses, resp)
    /\ stdout' = stdout \o <<
            <<"Failed to get access token: ", ToString(resp.status_code)>>,
            <<"Response: ", resp.text>> >>
    /\ access_token' = None
    /\ pc' = "resolve"
    /\ UNCHANGED <<variant, account, raw, tracks, formatted, error, output>>

\* Mutant: a refused token request is sent again.
get_access_token_fail_retried(resp) ==
    /\ pc = "start"
    /\ resp.status_code # HTTP_OK
    /\ requests' = Append(requests, Request("token", "basic", None, NoAccount))
    /\ responses' = Append(responses, resp)
    /\ stdout' = stdout \o <<
            <<"Failed to get access token: ", ToString(resp.status_code)>>,
            <<"Response: ", resp.text>> >>
    /\ pc' = "start"
    /\ UNCHANGED <<variant, access_token, account, raw, tracks, formatted, error, output>>

\* get_access_token: POST to the token endpoint, answered with another status.
get_access_token_fail(resp) ==
    /\ pc = "start"
    /\ resp.status_code # HTTP_OK
    /\ requests' = Append(requests, Request("token", "basic", None, NoAccount))
    /\ responses' = Append(responses, resp)
    /\ stdout' = stdout \o <<
            <<"Failed to get access token: ", ToString(resp.status_code)>>,
            <<"Response: ", resp.text>> >>
    /\ error' = Exception(<<"Failed to get access token: ", ToString(resp.status_code)>>)
    /\ pc' = "failed"
    /\ UNCHANGED <<variant, access_token, account, raw, tracks, formatted, output>>

\* The request fetch_soundcloud_tracks sends to the resolve endpoint.
resolve_request == Request("resolve", AuthOf(access_token), TokenOf(access_token), ByUsername)

\* Mutant: the track-listing request always carries the client_id parameter.
tracks_request_query_only == Request("tracks", "client_id_param", None, account)

\* The request fetch_soundcloud_tracks sends to the track-listing endpoint.
tracks_request == Request("tracks", AuthOf(access_token), TokenOf(access_token), account)

\* Resolve answered with 200: the listing is addressed by user_data.get('id').
resolve_found(id) ==
    /\ pc = "resolve"
    /\ requests' = Append(requests, resolve_request)
    /\ responses' = Append(responses, Response(HTTP_OK, "user body", [id |-> id]))
    /\ account' = ByUserId(Get(id, NoneInt))
    /\ pc' = "fetch"
    /\ UNCHANGED <<variant, access_token, raw, tracks, formatted, error, stdout, output>>

\* Mutant: a failed resolve ends the run.
resolve_fallback_raised(resp) ==
    /\ pc = "resolve"
    /\ resp.status_code # HTTP_OK
    /\ requests' = Append(requests, resolve_request)
    /\ responses' = Append(responses, resp)
    /\ error' = Exception(<<"Failed to resolve user: ", ToString(resp.status_code)>>)
    /\ pc' = "failed"
    /\ UNCHANGED <<variant, access_token, account, raw, tracks, formatted, stdout, output>>

\* Resolve answered with another status: the listing is addressed by username.
resolve_fallback(resp) ==
    /\ pc = "resolve"
    /\ resp.status_code # HTTP_OK
    /\ requests' = Append(requests, resolve_request)
    /\ responses' = Append(responses, resp)
    /\ stdout' = Append(stdout, <<"User resolve failed, trying direct username approach">>)
    /\ account' = ByUsername
    /\ pc' = "fetch"
    /\ UNCHANGED <<variant, access_token, raw, tracks, formatted, error, output>>

\* Track listing answered with 200: the body is filtered and returned.
fetch_tracks_ok(body) ==
    /\ pc = "fetch"
    /\ requests' = Append(requests, tracks_request)
    /\ responses' = Append(responses, Response(HTTP_OK, "tracks body", body))
    /\ raw' = body
    /\ tracks' = filter_tracks(body)
    /\ stdout' = IF streamable_of(body) = <<>> /\ public_of(body) = <<>>
                 THEN Append(stdout, <<"No tracks passed filters, returning all for debugging">>)
                 ELSE stdout
    /\ pc' = "fetched"
    /\ UNCHANGED <<variant, access_token, account, formatted, error, output>>

\* Mutant: a failed listing by user id is tried again by username.
fetch_tracks_fail_retried(resp) ==
    /\ pc = "fetch"
    /\ resp.status_code # HTTP_OK
    /\ requests' = Append(requests, tracks_request)
    /\ responses' = Append(responses, resp)
    /\ stdout' = stdout \o <<
            <<"Failed to fetch tracks: ", ToString(resp.status_code)>>,
            <<"Response: ", resp.text>> >>
    /\ IF account.by = "user_id"
       THEN /\ account' = ByUsername
            /\ pc' = "fetch"
            /\ error' = error
       ELSE /\ account' = account
            /\ pc' = "failed"
            /\ error' = Exception(<<"Failed to fetch tracks: ", ToString(resp.status_code)>>)
    /\ UNCHANGED <<variant, access_token, raw, tracks, formatted, output>>

\* Track listing answered with another status.
fetch_tracks_fail(resp) ==
    /\ pc = "fetch"
    /\ resp.status_code # HTTP_OK
    /\ requests' = Append(requests, tracks_request)
    /\ responses' = Append(responses, resp)
    /\ stdout' = stdout \o <<
            <<"Failed to fetch tracks: ", ToString(resp.status_code)>>,
            <<"Response: ", resp.text>> >>
    /\ error' = Exception(<<"Failed to fetch tracks: ", ToString(resp.status_code)>>)
    /\ pc' = "failed"
    /\ UNCHANGED <<variant, access_token, account, raw, tracks, formatted, output>>

\* Mutant: an empty list is written out as an empty artifact.
main_empty_written ==
    /\ pc = "fetched"
    /\ tracks = <<>>
    /\ output' = [exists |-> TRUE, dir |-> TRUE, kind |-> variant, records |-> <<>>]
    /\ pc' = "done"
    /\ UNCHANGED <<variant, requests, responses, access_token, account, raw, tracks, formatted, error, stdout>>

\* main: `if not tracks` raises.
main_empty ==
    /\ pc = "fetched"
    /\ tracks = <<>>
    /\ stdout' = Append(stdout, <<"No tracks found or API error occurred">>)
    /\ error' = Exception(<<"No tracks found or API error occurred">>)
    /\ pc' = "failed"
    /\ UNCHANGED <<variant, requests, responses, access_token, account, raw, tracks, formatted, output>>

\* main: format_track_data returns.
main_format ==
    /\ pc = "fetched"
    /\ tracks # <<>>
    /\ FirstBad(tracks) = 0
    /\ formatted' = format_track_data(tracks, variant)
    /\ pc' = "formatted"
    /\ UNCHANGED <<variant, requests, responses, access_token, account, raw, tracks, error, stdout, output>>

\* Mutant: the records built before the KeyError are written out.
main_keyerror_partial ==
    /\ pc = "fetched"
    /\ tracks # <<>>
    /\ FirstBad(tracks) # 0
    /\ error' = KeyError(FirstMissing(tracks[FirstBad(tracks)]))
    /\ output' = [exists |-> TRUE, dir |-> TRUE, kind |-> variant,
                  records |-> format_track_data(SubSeq(tracks, 1, FirstBad(tracks) - 1), variant)]
    /\ pc' = "failed"
    /\ UNCHANGED <<variant, requests, responses, access_token, account, raw, tracks, formatted, stdout>>

\* main: format_track_data raises KeyError on the first track lacking a required key.
main_keyerror ==
    /\ pc = "fetched"
    /\ tracks # <<>>
    /\ FirstBad(tracks) # 0
    /\ error' = KeyError(FirstMissing(tracks[FirstBad(tracks)]))
    /\ pc' = "failed"
    /\ UNCHANGED <<variant, requests, responses, access_token, account, raw, tracks, formatted, stdout, output>>

\* main: the output directory is created (JSON-file target) and the file written.
main_write ==
    /\ pc = "formatted"
    /\ output' = [exists |-> TRUE, dir |-> TRUE, kind |-> variant, records |-> formatted]
    /\ pc' = "done"
    /\ UNCHANGED <<variant, requests, responses, access_token, account, raw, tracks, formatted, error, stdout>>

Next ==
    \/ \E tok \in TokenVals : get_access_token_ok(tok)
    \/ \E resp \in ErrorResponses : get_access_token_fail(resp)
    \/ \E id \in UserIds : resolve_found(id)
    \/ \E resp \in ErrorResponses : resolve_fallback(resp)
    \/ \E body \in RunLists : fetch_tracks_ok(body)
    \/ \E resp \in ErrorResponses : fetch_tracks_fail(resp)
    \/ main_empty
    \/ main_format
    \/ main_keyerror
    \/ main_write

Spec == Init /\ [][Next]_vars

----------------------------------------------------------------------------
(* The run from the track-listing request on, after a token was obtained   *)
(* and the user resolved: the filter and format_track_data applied to the  *)
(* listings drawn from FilterLists and FormatLists.                        *)

InitFetch ==
    /\ variant \in {"json", "html"}
    /\ pc = "fetch"
    /\ access_token = Str(<<"t", "k">>)
    /\ account = ByUserId(Int_(7))
    /\ requests = <<Request("token", "basic", None, NoAccount),
                    Request("resolve", "oauth_header", Str(<<"t", "k">>), ByUsername)>>
    /\ responses = <<Response(HTTP_OK, "token body", [access_token |-> Str(<<"t", "k">>)]),
                     Response(HTTP_OK, "user body", [id |-> Int_(7)])>>
    /\ raw = <<>>
    /\ tracks = <<>>
    /\ formatted = <<>>
    /\ error = NoError
    /\ stdout = <<>>
    /\ output \in (IF variant = "json" THEN {NoFile, StaleFile} ELSE {EmptyDir, StaleFile})

NextFilter ==
    \/ \E body \in FilterLists : fetch_tracks_ok(body)
    \/ main_empty
    \/ main_format
    \/ main_write

FilterSpec == InitFetch /\ [][NextFilter]_vars

NextFormat ==
    \/ \E body \in FormatLists : fetch_tracks_ok(body)
    \/ main_empty
    \/ main_format
    \/ main_keyerror
    \/ main_write

FormatSpec == InitFetch /\ [][NextFormat]_vars

----------------------------------------------------------------------------
(* Properties.                                                             *)

\* s ends with p; s contains p.
EndsWith(s, p) == Len(s) >= Len(p) /\ SubSeq(s, Len(s) - Len(p) + 1, Len(s)) = p
Contains(s, p) == \E i \in 1..(Len(s) - Len(p) + 1) : SubSeq(s, i, i + Len(p) - 1) = p

\* The placeholder path of a target.
Placeholder(v) == IF v = "json" THEN JsonPlaceholder ELSE HtmlPlaceholder

\* The track listing was answered with 200, so raw and tracks are set.
Listed == Len(responses) >= 3 /\ responses[3].status_code = HTTP_OK

\* format_track_data has returned.
Formatted == pc \in {"formatted", "done"}

IsStreamable(t) == t.streamable = Bool(TRUE)
IsPublic(t) == t.sharing = Str(Public)
StreamableIdx == {i \in 1..Len(raw) : IsStreamable(raw[i])}
PublicIdx == {i \in 1..Len(raw) : IsPublic(raw[i])}

\* The k-th smallest element of a set of indices.
Nth(I, k) == CHOOSE i \in I : Cardinality({j \in I : j <= i}) = k

\* list is exactly the tracks of raw at the indices I, in their original order.
IsSelection(list, I) ==
    /\ Len(list) = Cardinality(I)
    /\ \A k \in 1..Len(list) : list[k] = raw[Nth(I, k)]

DebugLine == <<"No tracks passed filters, returning all for debugging">>
Printed(line) == \E k \in 1..Len(stdout) : stdout[k] = line

\* C1: every record produced by format_track_data, in either variant, has a
\* non-null artwork_url and a non-null stream_url, whatever the shape of the
\* optional fields of the raw track.
C1_NonNullUrls ==
    Formatted =>
        \A i \in 1..Len(formatted) :
            /\ formatted[i].artwork_url.k = "str"
            /\ formatted[i].stream_url.k = "str"

\* C2: the first non-empty tier wins.  With a streamable track in the listing
\* the result is exactly the streamable tracks in their original order; with
\* none streamable and a public one it is exactly the public tracks in their
\* original order, and the debug fallback is not taken.
C2_FilterTiers ==
    Listed =>
        /\ StreamableIdx # {} => IsSelection(tracks, StreamableIdx)
        /\ (StreamableIdx = {} /\ PublicIdx # {}) =>
                /\ IsSelection(tracks, PublicIdx)
                /\ ~Printed(DebugLine)
        /\ (StreamableIdx # {} \/ PublicIdx # {}) => ~Printed(DebugLine)

\* C2 witness: more than ten tracks, none streamable, a public one beyond the
\* tenth place and a non-public one before it: the result is the public
\* track, which the first-10 slice does not hold.
C2_Witness ==
    /\ Listed
    /\ StreamableIdx = {}
    /\ Len(raw) > DebugSlice
    /\ \E i \in PublicIdx : i > DebugSlice
    /\ tracks # <<>>
    /\ tracks # SubSeq(raw, 1, DebugSlice)
    /\ \A k \in 1..Len(tracks) : IsPublic(tracks[k])

\* C3: with no streamable and no public track the result is the first
\* min(10, n) tracks of the listing, unchanged and in order; and a track that
\* is neither streamable nor public is returned only in that case.
C3_DebugFallback ==
    Listed =>
        /\ (StreamableIdx = {} /\ PublicIdx = {}) =>
                /\ Len(tracks) = Min(DebugSlice, Len(raw))
                /\ \A k \in 1..Len(tracks) : tracks[k] = raw[k]
        /\ (\E k \in 1..Len(tracks) : ~IsStreamable(tracks[k]) /\ ~IsPublic(tracks[k])) =>
                (StreamableIdx = {} /\ PublicIdx = {})

\* C3 witness: a listing longer than ten tracks, none streamable or public,
\* cut to its first ten.
C3_Witness ==
    /\ Listed
    /\ StreamableIdx = {} /\ PublicIdx = {}
    /\ Len(raw) > DebugSlice
    /\ Len(tracks) = DebugSlice
    /\ Printed(DebugLine)

\* Growth of a text under html.escape: &amp; adds 4 characters, &lt; and &gt;
\* add 3, &quot; and &#x27; add 5.
EscapeGrowth(t) ==
    4 * Cardinality({k \in 1..Len(t) : t[k] = "&"})
    + 3 * Cardinality({k \in 1..Len(t) : t[k] \in {"<", ">"}})
    + 5 * Cardinality({k \in 1..Len(t) : t[k] \in {"\"", "'"}})

LongDescription(t) == t.description.k = "str" /\ Len(t.description.s) > DescLimit

\* C4 as stated: a description longer than 200 characters is normalized to at
\* most 203 characters ending in "...", for both targets.
C4_Original ==
    Formatted =>
        \A i \in 1..Len(formatted) :
            LongDescription(tracks[i]) =>
                /\ Len(formatted[i].description.s) <= DescLimit + Len(Ellipsis)
                /\ EndsWith(formatted[i].description.s, Ellipsis)

\* C4 amended: a description longer than 200 characters is normalized to a
\* text ending in "..."; it has exactly 203 characters for the JSON-file
\* target, and for the HTML-embed target 203 plus the growth html.escape
\* gives the first 200 characters, which are escaped after the cut.
C4_Truncated ==
    Formatted =>
        \A i \in 1..Len(formatted) :
            LET d == tracks[i].description.s
                o == formatted[i].description.s
            IN  LongDescription(tracks[i]) =>
                    /\ EndsWith(o, Ellipsis)
                    /\ variant = "json" => Len(o) = DescLimit + Len(Ellipsis)
                    /\ variant = "html" =>
                         Len(o) = DescLimit + Len(Ellipsis) + EscapeGrowth(SubSeq(d, 1, DescLimit))

\* C4 witness: the HTML-embed target escaped a long description into more
\* than 203 characters, still ending in "...".
C4_Witness ==
    /\ Formatted
    /\ variant = "html"
    /\ \E i \in 1..Len(formatted) :
            /\ LongDescription(tracks[i])
            /\ Len(formatted[i].description.s) > DescLimit + Len(Ellipsis)
            /\ EndsWith(formatted[i].description.s, Ellipsis)

\* C5: in the JSON-file normalizer the description is empty exactly when the
\* raw description is empty, null or absent, and every non-empty raw
\* description d of any length becomes its first 200 characters followed by
\* "...".
C5_JsonDescription ==
    (Formatted /\ variant = "json") =>
        \A i \in 1..Len(formatted) :
            LET d == tracks[i].description
                o == formatted[i].description
                n == Min(Len(d.s), DescLimit)
                empty == d.k \in {"absent", "null"} \/ d.s = <<>>
            IN  /\ o.k = "str"
                /\ (o.s = <<>>) <=> empty
                /\ ~empty =>
                     /\ Len(o.s) = n + 3
                     /\ \A k \in 1..n : o.s[k] = d.s[k]
                     /\ \A k \in (n + 1)..(n + 3) : o.s[k] = "."

\* C5 witness: a non-empty description shorter than 200 characters came out
\* with the ellipsis appended.
C5_Witness ==
    /\ Formatted
    /\ variant = "json"
    /\ \E i \in 1..Len(formatted) :
            /\ tracks[i].description.k = "str"
            /\ Len(tracks[i].description.s) \in 1..(DescLimit - 1)
            /\ formatted[i].description.s = tracks[i].description.s \o Ellipsis

LowResSuffixes == {LargeJpg, CropJpg, T300Jpg}

\* C6: an artwork URL ending in -large.jpg, -crop.jpg or -t300x300.jpg is
\* normalized to one ending in -t500x500.jpg; a URL containing none of the
\* three substrings is passed through unchanged; rewriting the result again
\* changes nothing.  (A URL is a non-empty text; the falsy values are C7's.)
C6_ArtworkUpgrade ==
    Formatted =>
        \A i \in 1..Len(formatted) :
            LET a == tracks[i].artwork_url
                o == formatted[i].artwork_url
            IN  (a.k = "str" /\ a.s # <<>>) =>
                    /\ o.k = "str"
                    /\ (\E x \in LowResSuffixes : EndsWith(a.s, x)) => EndsWith(o.s, T500Jpg)
                    /\ (\A x \in LowResSuffixes : ~Contains(a.s, x)) => o.s = a.s
                    /\ \A x \in LowResSuffixes : ~Contains(o.s, x)
                    /\ upgrade_artwork(o.s) = o.s

\* C6 witness: a URL ending in -crop.jpg came out ending in -t500x500.jpg.
C6_Witness ==
    /\ Formatted
    /\ \E i \in 1..Len(formatted) :
            /\ tracks[i].artwork_url.k = "str"
            /\ EndsWith(tracks[i].artwork_url.s, CropJpg)
            /\ EndsWith(formatted[i].artwork_url.s, T500Jpg)
            /\ formatted[i].artwork_url # tracks[i].artwork_url

FalsyArtwork(t) == t.artwork_url.k \in {"absent", "null"} \/ t.artwork_url.s = <<>>

\* C7: a falsy artwork_url (key absent, null or empty string) is normalized
\* to exactly the placeholder of the target, /moafunk.png from the JSON-file
\* normalizer and ./moafunk.png from the HTML-embed normalizer; the
\* placeholder itself, given as artwork_url, comes out unchanged.
C7_Placeholder ==
    Formatted =>
        \A i \in 1..Len(formatted) :
            /\ FalsyArtwork(tracks[i]) => formatted[i].artwork_url = Str(Placeholder(variant))
            /\ tracks[i].artwork_url = Str(Placeholder(variant)) =>
                    formatted[i].artwork_url = Str(Placeholder(variant))

\* C7 witness: the HTML-embed normalizer gave ./moafunk.png for a null
\* artwork_url.
C7_Witness ==
    /\ Formatted
    /\ variant = "html"
    /\ \E i \in 1..Len(formatted) :
            /\ tracks[i].artwork_url = None
            /\ formatted[i].artwork_url = Str(HtmlPlaceholder)

\* The elements of a sequence.
Range(f) == {f[k] : k \in DOMAIN f}

\* The endpoint named e answered request number k with a status other than 200.
Refused(k, e) ==
    /\ Len(responses) >= k
    /\ requests[k].endpoint = e
    /\ responses[k].status_code # HTTP_OK

\* The output file is as the run found it.
Unwritten == output.kind \in {"none", "stale"}

\* C8 as stated: a token response with a non-success status fails the run with
\* an error carrying the status code and the response body, and no resolve or
\* track-listing request follows.
C8_Original ==
    Refused(1, "token") =>
        /\ pc = "failed"
        /\ error.type = "Exception"
        /\ ToString(responses[1].status_code) \in Range(error.args)
        /\ responses[1].text \in Range(error.args)
        /\ Len(requests) = 1

\* C8 amended: a token response with a status other than 200 fails the run
\* with an error whose message carries the status code; the response body is
\* printed, it is not part of the error; no resolve or track-listing request
\* follows.
C8_TokenFailure ==
    Refused(1, "token") =>
        /\ pc = "failed"
        /\ error = Exception(<<"Failed to get access token: ", ToString(responses[1].status_code)>>)
        /\ Printed(<<"Response: ", responses[1].text>>)
        /\ Len(requests) = 1
        /\ \A k \in 1..Len(requests) : requests[k].endpoint \notin {"resolve", "tracks"}
        /\ ~ENABLED Next

\* C8 witness: the token endpoint answered 401 and the run failed after its
\* only request.
C8_Witness ==
    /\ Refused(1, "token")
    /\ responses[1] = Response(401, "unauthorized", None)
    /\ pc = "failed"
    /\ Len(requests) = 1

\* The account the listing must address, given the answer to the resolve request.
ResolvedAccount(resp) ==
    IF resp.status_code = HTTP_OK
    THEN [by |-> "user_id", id |-> IF resp.json.id.k = "absent" THEN NoneInt ELSE resp.json.id]
    ELSE [by |-> "username", id |-> AbsentInt]

TracksRequests == {k \in 1..Len(requests) : requests[k].endpoint = "tracks"}

\* C9: a resolve response with a status other than 200 does not fail the run:
\* the track-listing request is issued next, addressed by the raw username;
\* with status 200 it is addressed by the account id of the response body; in
\* both cases exactly one track-listing request follows the resolve request.
C9_ResolveFallback ==
    /\ Len(requests) = 2 =>
            /\ requests[2].endpoint = "resolve"
            /\ pc = "fetch"
            /\ error = NoError
            /\ ENABLED (\E body \in RunLists : fetch_tracks_ok(body))
            /\ ENABLED (\E resp \in ErrorResponses : fetch_tracks_fail(resp))
    /\ Len(requests) >= 3 =>
            /\ requests[2].endpoint = "resolve"
            /\ TracksRequests = {3}
            /\ requests[3].account = ResolvedAccount(responses[2])
    /\ Len(requests) <= 3

\* C9 witness: resolve answered with another status than 200 and the listing
\* was then requested by username, and answered.
C9_Witness ==
    /\ Refused(2, "resolve")
    /\ Len(requests) = 3
    /\ requests[3].endpoint = "tracks"
    /\ requests[3].account = ByUsername
    /\ Listed

\* C10 as stated: a track-listing response with a status other than 200 fails
\* the run with an error carrying the status code and the response body;
\* nothing is filtered, normalized or written, and the listing is not
\* requested again.
C10_Original ==
    Refused(3, "tracks") =>
        /\ pc = "failed"
        /\ error.type = "Exception"
        /\ ToString(responses[3].status_code) \in Range(error.args)
        /\ responses[3].text \in Range(error.args)
        /\ raw = <<>> /\ tracks = <<>> /\ formatted = <<>>
        /\ Unwritten
        /\ TracksRequests = {3}

\* C10 amended: a track-listing response with a status other than 200 fails
\* the run with an error whose message carries the status code; the response
\* body is printed, it is not part of the error; nothing is filtered,
\* normalized or written, and the listing is not requested again, whatever
\* account identifier the failed request used.
C10_FetchFailure ==
    Refused(3, "tracks") =>
        /\ pc = "failed"
        /\ error = Exception(<<"Failed to fetch tracks: ", ToString(responses[3].status_code)>>)
        /\ Printed(<<"Response: ", responses[3].text>>)
        /\ raw = <<>> /\ tracks = <<>> /\ formatted = <<>>
        /\ Unwritten
        /\ TracksRequests = {3}
        /\ Len(requests) = 3
        /\ requests[3].account = ResolvedAccount(responses[2])
        /\ ~ENABLED Next

\* C10 witness: the listing, requested by user id, answered 404 and the run
\* failed without a second listing request.
C10_Witness ==
    /\ Refused(3, "tracks")
    /\ responses[3] = Response(404, "not found", None)
    /\ requests[3].account.by = "user_id"
    /\ pc = "failed"
    /\ Len(requests) = 3

\* Some track of the list lacks one of the keys read without a default.
LacksRequired(ts) ==
    \E i \in 1..Len(ts) :
        \E key \in {"id", "title", "created_at", "duration", "permalink_url"} :
            ts[i][key].k = "absent"

\* C11: a run produces the full artifact or nothing.  A refused token
\* request, a refused track listing, an empty result and a required key
\* missing from a track of the filtered list each end the run; a step that
\* ends the run in failure leaves the output file as it was and no step
\* follows it; the only step that changes the output file is the write after
\* format_track_data returned, and the file then holds one record for every
\* track the filter returned, in order.
C11_AllOrNothing ==
    [][ /\ pc # "failed"
        /\ (Len(responses') = 1 /\ responses'[1].status_code # HTTP_OK) => pc' = "failed"
        /\ (Len(responses') = 3 /\ responses'[3].status_code # HTTP_OK) => pc' = "failed"
        /\ (pc = "fetched" /\ tracks = <<>>) => pc' = "failed"
        /\ (pc = "fetched" /\ LacksRequired(tracks)) => pc' = "failed"
        /\ pc' = "failed" => output' = output
        /\ output' # output =>
                /\ pc = "formatted" /\ pc' = "done"
                /\ ~LacksRequired(tracks)
                /\ output'.exists /\ output'.kind = variant
                /\ output'.records = formatted
                /\ Len(output'.records) = Len(tracks)
                /\ Len(tracks) > 0
                /\ \A i \in 1..Len(tracks) :
                        /\ output'.records[i].id = tracks[i].id
                        /\ output'.records[i].permalink_url = tracks[i].permalink_url
      ]_vars

\* C11 witness: the second track of the filtered list lacked a required key;
\* the run failed and the file it found is as it was.
C11_Witness ==
    /\ pc = "failed"
    /\ error.type = "KeyError"
    /\ Len(tracks) >= 2
    /\ ~LacksRequired(<<tracks[1]>>)
    /\ LacksRequired(<<tracks[2]>>)
    /\ formatted = <<>>
    /\ output = StaleFile

EmptyResultError == Exception(<<"No tracks found or API error occurred">>)

\* C12: after a successful token request and a 200 track listing the run
\* fails with the empty-result error exactly when the list returned by
\* fetch_soundcloud_tracks is empty: with an empty list raising is the only
\* step the run can take, with a non-empty list the error is never raised,
\* and an empty list never leads to a written output file.
C12_EmptyResult ==
    /\ (Listed /\ pc # "fetched") => (error = EmptyResultError <=> tracks = <<>>)
    /\ (Listed /\ pc = "fetched" /\ tracks = <<>>) =>
            /\ ENABLED main_empty
            /\ ~ENABLED main_format
            /\ ~ENABLED main_keyerror
            /\ ~ENABLED main_write
    /\ (Listed /\ pc = "fetched" /\ tracks # <<>>) => ~ENABLED main_empty
    /\ (Listed /\ tracks = <<>>) =>
            /\ pc \in {"fetched", "failed"}
            /\ formatted = <<>>
            /\ Unwritten
    /\ error = EmptyResultError =>
            /\ Listed
            /\ responses[1].status_code = HTTP_OK
            /\ pc = "failed"

\* C12 witness: the listing answered 200 with no track, the run failed with
\* the empty-result error and the file it found is as it was.
C12_Witness ==
    /\ Listed
    /\ raw = <<>>
    /\ tracks = <<>>
    /\ pc = "failed"
    /\ error = EmptyResultError
    /\ output = StaleFile

\* The stages in their order: auth, resolve, fetch and filter, normalize, write.
Stages == <<"start", "resolve", "fetch", "fetched", "formatted", "done">>
Endpoints == <<"token", "resolve", "tracks">>

\* What the history of a run shows in every state.
StageOrder ==
    /\ Len(requests) <= Len(Endpoints)
    /\ Len(responses) = Len(requests)
    /\ \A k \in 1..Len(requests) : requests[k].endpoint = Endpoints[k]
    /\ Len(requests) >= 2 => responses[1].status_code = HTTP_OK
    /\ pc \in {"fetched", "formatted", "done"} => Listed
    /\ (raw # <<>> \/ tracks # <<>>) => Listed
    /\ (Formatted \/ formatted # <<>>) =>
            /\ Listed
            /\ tracks # <<>>
            /\ Len(formatted) = Len(tracks)
    /\ ~Unwritten => (pc = "done" /\ output.records = formatted)
    /\ (pc = "failed") <=> (error # NoError)

\* What every step of a run does.
StageStep ==
    /\ pc # "failed"
    /\ \/ pc' = "failed"
       \/ \E k \in 1..(Len(Stages) - 1) : pc = Stages[k] /\ pc' = Stages[k + 1]
    /\ pc = "start" =>
            /\ Len(requests') = 1 /\ requests'[1].endpoint = "token"
            /\ (pc' = "resolve") <=> (responses'[1].status_code = HTTP_OK)
    /\ pc = "resolve" =>
            /\ Len(requests') = 2 /\ requests'[2].endpoint = "resolve"
            /\ pc' = "fetch"
    /\ pc = "fetch" =>
            /\ Len(requests') = 3 /\ requests'[3].endpoint = "tracks"
            /\ (pc' = "fetched") <=> (responses'[3].status_code = HTTP_OK)
    /\ pc \in {"fetched", "formatted"} => (requests' = requests /\ responses' = responses)
    /\ pc = "fetched" => output' = output
    /\ pc = "formatted" => (pc' = "done" /\ formatted' = formatted)

\* C13: the stages of a run happen in the order auth, resolve, fetch, filter,
\* normalize, write, each after the previous one completed successfully
\* (resolve on any status); a run issues at most one token request, at most
\* one resolve request and at most one track-listing request, in that order,
\* and takes no step after a failure.
C13_StrictOrder == []StageOrder /\ [][StageStep]_vars

\* C13 witness: a run that reached the write after a refused resolve, with
\* its three requests.
C13_Witness ==
    /\ pc = "done"
    /\ Len(requests) = 3
    /\ Refused(2, "resolve")
    /\ ~Unwritten
    /\ output.records = formatted
    /\ formatted # <<>>

\* The access_token entry of the body of a 200 token response.
TokenGranted == Len(responses) >= 1 /\ responses[1].status_code = HTTP_OK
TokenEntry == responses[1].json.access_token

\* Request k carries the Authorization: OAuth header with that token and no
\* client_id parameter.
HeaderAuth(k, token) ==
    /\ requests[k].auth = "oauth_header"
    /\ requests[k].token = token

\* Request k carries the client_id query parameter and no Authorization header.
QueryAuth(k) ==
    /\ requests[k].auth = "client_id_param"
    /\ requests[k].token = None

\* A 200 token response does not end the run, whatever its access_token.
TokenlessContinues ==
    (TokenGranted /\ Len(responses) = 1) =>
        /\ pc = "resolve"
        /\ error = NoError
        /\ ENABLED (\E id \in UserIds : resolve_found(id))
        /\ ENABLED (\E resp \in ErrorResponses : resolve_fallback(resp))

SameAuth ==
    Len(requests) >= 3 =>
        /\ requests[2].endpoint = "resolve"
        /\ requests[3].endpoint = "tracks"
        /\ requests[3].auth = requests[2].auth
        /\ requests[3].token = requests[2].token

\* C14: a 200 token response whose access_token is absent or null does not
\* end the run, and the resolve and the track-listing request then both carry
\* the client_id query parameter and no Authorization header; so they do for
\* an empty token, which the scripts take for no token; when a token is held
\* both carry the Authorization: OAuth <token> header and no client_id
\* parameter; the two requests never differ in their auth, whether or not
\* resolve succeeded.
C14_TokenAuth ==
    /\ TokenlessContinues
    /\ SameAuth
    /\ \A k \in 2..Len(requests) :
            /\ (TokenEntry.k \in {"absent", "null"} \/ TokenEntry = Str(<<>>)) => QueryAuth(k)
            /\ (TokenEntry.k = "str" /\ TokenEntry.s # <<>>) => HeaderAuth(k, TokenEntry)

\* C14 witness: a run with a null access_token and a refused resolve that sent
\* both requests with the client_id parameter and went on to list the tracks.
C14_Witness ==
    /\ Len(requests) = 3
    /\ TokenGranted
    /\ TokenEntry = None
    /\ Refused(2, "resolve")
    /\ QueryAuth(2) /\ QueryAuth(3)
    /\ Listed
    /\ error = NoError

\* The characters html.escape rewrites.
HtmlSpecial == {"&", "<", ">", "\"", "'"}
HasSpecial(s) == \E i \in 1..Len(s) : s[i] \in HtmlSpecial

\* The artwork_url of a raw track is there and not empty.
HasArtwork(track) == track.artwork_url.k = "str" /\ track.artwork_url.s # <<>>

\* A record of the JSON-file target with title and description escaped and,
\* where the track has no artwork, the placeholder of the HTML-embed target.
EscapedForHtml(rec, track) ==
    [rec EXCEPT
        !.title = Str(html_escape(rec.title.s)),
        !.description = Str(html_escape(rec.description.s)),
        !.artwork_url = IF HasArtwork(track) THEN rec.artwork_url ELSE Str(HtmlPlaceholder)]

\* C15: the two format_track_data differ only in escaping and placeholder
\* path: the record the HTML-embed target builds for a track is the record of
\* the JSON-file target with title and description HTML-escaped and
\* ./moafunk.png for /moafunk.png where the placeholder stands in for missing
\* artwork; the JSON-file target returns the raw title; for a track without
\* HTML-special characters that has artwork the two records are identical.
C15_VariantsDiffer ==
    Formatted =>
        \A i \in 1..Len(tracks) :
            LET t == tracks[i]
                j == format_track_json(t)
            IN  /\ variant = "json" =>
                        /\ formatted[i] = j
                        /\ formatted[i].title = t.title
                        /\ ~HasArtwork(t) => formatted[i].artwork_url = Str(JsonPlaceholder)
                /\ variant = "html" =>
                        /\ formatted[i] = EscapedForHtml(j, t)
                        /\ ( /\ ~HasSpecial(t.title.s)
                             /\ ~HasSpecial(t.description.s)
                             /\ HasArtwork(t) ) => formatted[i] = j

\* C15 witness: the HTML-embed target formatted a track without artwork whose
\* title and description both hold special characters.
C15_Witness ==
    /\ variant = "html"
    /\ Formatted
    /\ Len(tracks) = 1
    /\ HasSpecial(tracks[1].title.s)
    /\ HasSpecial(tracks[1].description.s)
    /\ ~HasArtwork(tracks[1])
    /\ formatted[1].title # tracks[1].title
    /\ formatted[1].description # format_track_json(tracks[1]).description
    /\ formatted[1].artwork_url = Str(HtmlPlaceholder)
    /\ format_track_json(tracks[1]).artwork_url = Str(JsonPlaceholder)

\* The step in which format_track_data runs to its end.
Normalizes == pc = "fetched" /\ pc' = "formatted"

\* C16: format_track_data maps a list of tracks that all carry the required
\* fields to a list of the same length whose i-th record has the id,
\* created_at, duration and permalink_url of the i-th track unchanged, so
\* that no track is dropped, duplicated or reordered; the list it was given
\* is not modified.
C16_PerTrackMapping ==
    [][ Normalizes =>
            /\ ~LacksRequired(tracks)
            /\ tracks' = tracks
            /\ raw' = raw
            /\ Len(formatted') = Len(tracks)
            /\ \A i \in 1..Len(tracks) :
                    /\ formatted'[i].id = tracks[i].id
                    /\ formatted'[i].created_at = tracks[i].created_at
                    /\ formatted'[i].duration = tracks[i].duration
                    /\ formatted'[i].permalink_url = tracks[i].permalink_url
      ]_vars

\* C16 witness: a list of at least ten tracks with distinct ids, some of the
\* listing filtered out before, was formatted into as many records.
C16_Witness ==
    /\ pc = "formatted"
    /\ Len(raw) > Len(tracks)
    /\ Len(tracks) >= DebugSlice
    /\ Len(formatted) = Len(tracks)
    /\ \A i, j \in 1..Len(formatted) : formatted[i].id = formatted[j].id => i = j
    /\ \A i \in 1..Len(formatted) : formatted[i].id = tracks[i].id

====
